---- MODULE Spec2Model ----
(***************************************************************************)
(* Model of the fraud proof service of go-fraud (package fraudserv):       *)
(* ProofService with its topics, verifiers, lazy store handles and         *)
(* datastore, the validation pipeline processIncoming, Broadcast,          *)
(* Subscribe, AddVerifier, Get, Start and Stop, and the subscription       *)
(* wrapper.  Every node of Nodes runs one ProofService over its own        *)
(* pubsub instance and datastore.                                          *)
(***************************************************************************)
EXTENDS Integers, Sequences, FiniteSets, TLC

VARIABLES
    unmarshalers,  \* MultiUnmarshaler.Unmarshalers: the set of registered proof types
    status,        \* per node: "new", "started", "failed" (Start returned an error), "stopped"
    topics,        \* per node: keys of ProofService.topics
    verifiers,     \* per node: ProofService.verifiers, proof type -> verifier or NoVerifier
    stores,        \* per node: keys of ProofService.stores (lazy per-type handles)
    ds,            \* per node: datastore content, <<proof type, hex hash>> -> bytes
    subOpen,       \* per node: proof types with an open subscription
    subQueue,      \* per node, per type: messages delivered to the subscription, not yet read
    got,           \* per node, per type: proofs that subscription.Proof has returned
    blacklist,     \* per node: peers handed to pubsub.BlacklistPeer
    tasks,         \* pipeline invocations in progress
    net,           \* messages in flight between connected nodes
    links,         \* connections between nodes
    msgs,          \* number of messages that entered a pipeline so far
    accepted,      \* per node: <<proof type, bytes>> for which processIncoming returned Accept
    ret,           \* the call that has just returned, with its arguments and results
    startCtx,      \* per node: the context its embedder passes to Start, "live" or "cancelled"
    scope,         \* per node: ProofService.ctx, "none" before Start, "live" or "cancelled"
    syncer,        \* per node: syncerEnabled, the catch-up task, and the peers it has asked
    streams        \* sync requests and responses in flight

vars == <<unmarshalers, status, topics, verifiers, stores, ds, subOpen, subQueue,
          got, blacklist, tasks, net, links, msgs, accepted, ret,
          startCtx, scope, syncer, streams>>

\* the state of the lifecycle scope and of the catch-up protocol
syncVars == <<startCtx, scope, syncer, streams>>

-----------------------------------------------------------------------------
(* Bounds of the model. *)

\* messages that may enter the pipelines in one behaviour
MaxMsgs == 2
\* pipeline invocations that may be in progress at the same time
MaxTasks == 2

-----------------------------------------------------------------------------
(* Unsigned 64-bit heights, kept at full width as four 16-bit limbs,       *)
(* most significant first.                                                 *)

Limb == 65536

U64(n) == <<0, 0, 0, n>>

U64Max == <<Limb - 1, Limb - 1, Limb - 1, Limb - 1>>

\* a + b on uint64: the carry out of the top limb is dropped
U64Add(a, b) ==
    LET s4 == a[4] + b[4]
        s3 == a[3] + b[3] + (s4 \div Limb)
        s2 == a[2] + b[2] + (s3 \div Limb)
        s1 == a[1] + b[1] + (s2 \div Limb)
    IN  <<s1 % Limb, s2 % Limb, s3 % Limb, s4 % Limb>>

\* a < b on uint64
U64Less(a, b) ==
    \E i \in 1..4 : a[i] < b[i] /\ \A j \in 1..(i - 1) : a[j] = b[j]

headThreshold == U64(20)

\* TRUE when a + b does not fit in a uint64
U64AddOverflows(a, b) ==
    LET s4 == a[4] + b[4]
        s3 == a[3] + b[3] + (s4 \div Limb)
        s2 == a[2] + b[2] + (s3 \div Limb)
        s1 == a[1] + b[1] + (s2 \div Limb)
    IN  s1 >= Limb

-----------------------------------------------------------------------------
(* Proof types, proofs and their encodings. *)

Nodes == {"A", "B", "C"}

\* a peer outside the modelled nodes, sending whatever it likes
Remote == "P"

\* "" is the zero value of ProofType
ProofTypes == {"", "t1", "t2"}

\* the registries a service may be constructed with
Registries == {{"t1"}}

\* header hashes, as byte strings
Hash1 == <<171>>
Hash2 == <<205, 1>>

HexDigits == <<"0", "1", "2", "3", "4", "5", "6", "7", "8", "9",
               "a", "b", "c", "d", "e", "f">>

\* hex.EncodeToString
RECURSIVE hexEncodeToString(_)
hexEncodeToString(b) ==
    IF b = <<>> THEN ""
    ELSE HexDigits[(Head(b) \div 16) + 1] \o HexDigits[(Head(b) % 16) + 1]
         \o hexEncodeToString(Tail(b))

\* a Proof: what Validate does with it, HeaderHash() and Height()
mkProof(valid, panics, hash, height) ==
    [Valid |-> valid, Panics |-> panics, hash |-> hash, height |-> height]

NoProof == mkProof(FALSE, FALSE, <<>>, U64(0))

\* the byte strings that travel in messages; "v1ws" is a second encoding of
\* the proof "v1" encodes (the same JSON with white space), "junk" does not decode
Bytes == {"v1", "v1ws", "i1", "v2", "far", "pan", "junk"}

NoData == "none"

\* what the unmarshal function of a registered type makes of a byte string
decode(data) ==
    CASE data = "v1"   -> mkProof(TRUE, FALSE, Hash1, U64(1))
      [] data = "v1ws" -> mkProof(TRUE, FALSE, Hash1, U64(1))
      [] data = "i1"   -> mkProof(FALSE, FALSE, Hash1, U64(1))
      [] data = "v2"   -> mkProof(TRUE, FALSE, Hash2, U64(21))
      [] data = "far"  -> mkProof(TRUE, FALSE, Hash2, U64(22))
      [] data = "pan"  -> mkProof(FALSE, TRUE, Hash1, U64(1))
      [] OTHER         -> NoProof

\* the proofs a caller may hand to Broadcast
Proofs == {decode(d) : d \in Bytes \ {"junk"}}

\* MarshalBinary: the canonical encoding (json.Marshal writes no white space)
MarshalBinary(p) ==
    CHOOSE d \in Bytes \ {"junk", "v1ws"} : decode(d) = p

\* errors are values with an identity: two allocations of the same error type differ
NoErr == [kind |-> "nil", at |-> "nil"]
mkErr(kind, at) == [kind |-> kind, at |-> at]

\* errors.Is for an error type without an Is method: equality with the target
errorsIs(err, target) == err = target

\* MultiUnmarshaler.Unmarshal
Unmarshal(proofType, data) ==
    IF proofType \notin unmarshalers
    THEN [proof |-> NoProof, err |-> mkErr("ErrNoUnmarshaler", "Unmarshal")]
    ELSE IF data = "junk"
         THEN [proof |-> NoProof, err |-> mkErr("decode", "Unmarshal")]
         ELSE [proof |-> decode(data), err |-> NoErr]

\* the orders in which a range over the Unmarshalers map may visit its keys
Orders(S) ==
    {o \in [1..Cardinality(S) -> S] : \A i, j \in 1..Cardinality(S) : o[i] = o[j] => i = j}

\* make([]ProofType, k): k zero values
RECURSIVE zeroTypes(_)
zeroTypes(k) == IF k = 0 THEN <<>> ELSE <<"">> \o zeroTypes(k - 1)

\* MultiUnmarshaler.List, for the map iteration order `order': the slice is made
\* with len(Unmarshalers) elements and the types are appended behind them
List(order) == zeroTypes(Len(order)) \o order

\* Proof.Validate: "panic", "error" or "nil"
Validate(p) ==
    IF p.Panics THEN "panic"
    ELSE IF ~p.Valid THEN "error"
    ELSE "nil"

-----------------------------------------------------------------------------
(* The proof store: one datastore namespace per proof type. *)

HexKeys == {hexEncodeToString(Hash1), hexEncodeToString(Hash2)}

StoreKeys == ProofTypes \X HexKeys

\* getByHash: the bytes under the key, or ErrNotFound
getByHash(n, proofType, hash) ==
    IF ds[n][<<proofType, hash>>] = NoData
    THEN [data |-> NoData, err |-> "NotFound"]
    ELSE [data |-> ds[n][<<proofType, hash>>], err |-> "nil"]

\* the records of a type partition, in the order of their keys
RECURSIVE entriesOf(_, _, _)
entriesOf(n, proofType, keys) ==
    IF keys = {} THEN <<>>
    ELSE LET k == CHOOSE x \in keys : TRUE
             rest == entriesOf(n, proofType, keys \ {k})
         IN  IF ds[n][<<proofType, k>>] = NoData THEN rest
             ELSE <<ds[n][<<proofType, k>>]>> \o rest

\* the proofs that decode out of a list of records; the others are skipped
RECURSIVE decodeAll(_, _)
decodeAll(proofType, entries) ==
    IF entries = <<>> THEN <<>>
    ELSE LET u == Unmarshal(proofType, Head(entries))
         IN  IF u.err = NoErr
             THEN <<u.proof>> \o decodeAll(proofType, Tail(entries))
             ELSE decodeAll(proofType, Tail(entries))

\* getAll: ErrNotFound and no list when the partition has no record
getAll(n, proofType) ==
    LET entries == entriesOf(n, proofType, HexKeys)
    IN  IF entries = <<>>
        THEN [list |-> <<>>, isNil |-> TRUE, err |-> "NotFound"]
        ELSE [list |-> decodeAll(proofType, entries), isNil |-> FALSE, err |-> "nil"]

\* verifyLocal reading a datastore all nodes share: TRUE when any node has
\* stored these bytes under the hash
verifyLocalAnyNode(n, proofType, hash, data, dsOk) ==
    \E m \in Nodes :
        /\ proofType \in stores[m]
        /\ dsOk
        /\ getByHash(m, proofType, hash).err = "nil"
        /\ getByHash(m, proofType, hash).data = data

\* ProofService.verifyLocal: TRUE when the bytes stored under the hash equal data.
\* dsOk tells whether the datastore read succeeds.
verifyLocal(n, proofType, hash, data, dsOk) ==
    IF proofType \notin stores[n] THEN FALSE
    ELSE IF ~dsOk THEN FALSE
    ELSE LET r == getByHash(n, proofType, hash)
         IN  IF r.err # "nil" THEN FALSE
             ELSE r.data = data

-----------------------------------------------------------------------------
(* The validation pipeline, ProofService.processIncoming. *)

Peers == Nodes \cup {Remote}

NoVerifier == "none"

\* what a registered verifier does: return (true, nil), (false, nil) or an error
VerifierKinds == {"true", "false", "error"}

\* what the head fetcher may return: an error, or a head of some height
Heads == {[err |-> TRUE, height |-> U64(0)],
          [err |-> FALSE, height |-> U64(1)],
          [err |-> FALSE, height |-> U64Max]}

\* the calls of an invocation to code it is handed that may panic: the
\* unmarshal function, the head fetcher, the header fetcher and the verifier
\* (Validate panics for the proofs that say so)
PanicPoints == {"none", "unmarshal", "head", "header", "verifier"}

\* the outcomes of the calls a pipeline invocation makes to its collaborators:
\* the head fetcher, the header fetcher and the datastore read, none of them
\* panicking
Envs == [head : Heads, hdrOk : BOOLEAN, dsOk : BOOLEAN, panic : {"none"}]

\* the same outcomes, with a panic in one of the calls
PanicEnvs == [head : Heads, hdrOk : BOOLEAN, dsOk : BOOLEAN, panic : PanicPoints]

\* a stage that lets the message through
Pass == [res |-> "pass", bl |-> 0, vd |-> FALSE, why |-> "pass"]

verdict(res, bl, vd, why) == [res |-> res, bl |-> bl, vd |-> vd, why |-> why]

\* the deferred function without the assignment of Reject: the result
\* stays at the zero value of ValidationResult, ValidationAccept
recoveredAccepts(vd, at) == verdict("Accept", 0, vd, at)

\* the deferred function of processIncoming: a panic of the call `at' is
\* recovered and the result is set to Reject
recovered(vd, at) == verdict("Reject", 0, vd, at)

\* the decode stage: Reject, and BlacklistPeer unless the error is ErrNoUnmarshaler
unmarshalStage(u) ==
    IF u.err # NoErr
    THEN verdict("Reject",
                 IF ~errorsIs(u.err, mkErr("ErrNoUnmarshaler", "processIncoming"))
                 THEN 1 ELSE 0,
                 FALSE, "decode")
    ELSE Pass

\* knownStage with the duplicate check left out: a stored proof goes on
knownStagePasses(n, proofType, proof, data, env) ==
    Pass

\* the duplicate check: Ignore what verifyLocal finds stored
knownStage(n, proofType, proof, data, env) ==
    IF verifyLocal(n, proofType, hexEncodeToString(proof.hash), data, env.dsOk)
    THEN verdict("Ignore", 0, FALSE, "known")
    ELSE Pass

\* headStage with the comparison turned round: Reject below the threshold
headStageThresholdFlipped(proof, env) ==
    IF env.head.err THEN verdict("Ignore", 0, FALSE, "head")
    ELSE IF U64Less(proof.height, U64Add(env.head.height, headThreshold))
         THEN verdict("Reject", 0, FALSE, "threshold")
         ELSE Pass

\* the head stage: Ignore when the head fetcher fails, Reject above the threshold
headStage(proof, env) ==
    IF env.head.err THEN verdict("Ignore", 0, FALSE, "head")
    ELSE IF U64Less(U64Add(env.head.height, headThreshold), proof.height)
         THEN verdict("Reject", 0, FALSE, "threshold")
         ELSE Pass

\* headerStage with the error of the header fetcher dropped
headerStagePasses(env) == Pass

\* the header stage: Ignore when the header fetcher fails; ValidatorData is set by now
headerStage(env) ==
    IF ~env.hdrOk THEN verdict("Ignore", 0, TRUE, "header") ELSE Pass

\* verifierStage with the boolean of the verifier dropped: only its error
\* stops the message
verifierStageIgnoresStatus(n, proofType) ==
    IF verifiers[n][proofType] = "error"
    THEN verdict("Reject", 0, TRUE, "verifier")
    ELSE Pass

\* the verifier stage: run the verifier of the type when there is one
verifierStage(n, proofType) ==
    IF verifiers[n][proofType] # NoVerifier
    THEN IF verifiers[n][proofType] = "error" THEN verdict("Reject", 0, TRUE, "verifier")
         ELSE IF verifiers[n][proofType] = "false" THEN verdict("Reject", 0, TRUE, "verifier")
         ELSE Pass
    ELSE Pass

\* validateStage with the error of Validate dropped: only a panic stops the message
validateStageSkipsError(proof) ==
    IF Validate(proof) = "panic" THEN recovered(TRUE, "panic")
    ELSE Pass

\* the validate stage: a panic is recovered into Reject, an error is Reject
\* with BlacklistPeer
validateStage(proof) ==
    IF Validate(proof) = "panic" THEN recovered(TRUE, "panic")
    ELSE IF Validate(proof) = "error" THEN verdict("Reject", 1, TRUE, "validate")
    ELSE Pass

\* processIncoming up to the store write: the verdict of the first stage that
\* stops the message, or Pass when the message is to be stored and accepted
processIncomingChecks(n, proofType, data, env) ==
    LET u == Unmarshal(proofType, data)
        s1 == unmarshalStage(u)
        s2 == knownStage(n, proofType, u.proof, data, env)
        s3 == headStage(u.proof, env)
        s4 == headerStage(env)
        s5 == verifierStage(n, proofType)
        s6 == validateStage(u.proof)
    IN  IF env.panic = "unmarshal" THEN recovered(FALSE, "panic-unmarshal")
        ELSE IF s1 # Pass THEN s1
        ELSE IF s2 # Pass THEN s2
        ELSE IF env.panic = "head" THEN recovered(FALSE, "panic-head")
        ELSE IF s3 # Pass THEN s3
        ELSE IF env.panic = "header" THEN recovered(TRUE, "panic-header")
        ELSE IF s4 # Pass THEN s4
        ELSE IF env.panic = "verifier" /\ verifiers[n][proofType] # NoVerifier
             THEN recovered(TRUE, "panic-verifier")
        ELSE IF s5 # Pass THEN s5
        ELSE s6

-----------------------------------------------------------------------------
(* The state after NewProofService, and what a call reports when it returns. *)

\* what an invocation met when it checked its message: `beyond' when the head
\* was fetched and the height of the proof is more than the height of the head
\* plus 20, as numbers; `held' when the datastore held the bytes of the message
\* under the type and hash of the proof; `missed' when it held them and the
\* read of the duplicate check failed; `other' when it held other bytes under
\* that type and hash; `nohandle' when it held the bytes and the service had no
\* store handle for the type; `headDown' when the message decodes and the head
\* fetcher fails for this invocation if it is called; `hdrDown' when the
\* message got as far as the header fetcher, which failed
NoSeen == [beyond |-> FALSE, held |-> FALSE, missed |-> FALSE, other |-> FALSE,
           nohandle |-> FALSE, headDown |-> FALSE, hdrDown |-> FALSE]

\* the record of a returned call; the fields a call does not set keep these values
mkRet(op, n, proofType) ==
    [op |-> op, node |-> n, proofType |-> proofType, data |-> NoData, from |-> "",
     res |-> "none", err |-> "nil", isNil |-> TRUE, list |-> <<>>, proof |-> NoProof,
     bl |-> 0, why |-> "none", clean |-> FALSE, changed |-> FALSE, failed |-> {},
     seen |-> NoSeen, dup |-> FALSE]

\* no call has returned that its caller has not yet taken note of
NoCall == mkRet("none", "", "")

InitService ==
    /\ status = [n \in Nodes |-> "new"]
    /\ topics = [n \in Nodes |-> {}]
    /\ verifiers = [n \in Nodes |-> [t \in ProofTypes |-> NoVerifier]]
    /\ stores = [n \in Nodes |-> {}]
    /\ ds = [n \in Nodes |-> [k \in StoreKeys |-> NoData]]
    /\ subOpen = [n \in Nodes |-> {}]
    /\ subQueue = [n \in Nodes |-> [t \in ProofTypes |-> <<>>]]
    /\ got = [n \in Nodes |-> [t \in ProofTypes |-> <<>>]]
    /\ blacklist = [n \in Nodes |-> {}]
    /\ tasks = {}
    /\ net = {}
    /\ msgs = 0
    /\ accepted = [n \in Nodes |-> {}]
    /\ ret = NoCall

\* the scope and the catch-up protocol after NewProofService; `enabled' are the
\* nodes whose service is made with syncerEnabled
InitSync(enabled) ==
    /\ startCtx = [n \in Nodes |-> "live"]
    /\ scope = [n \in Nodes |-> "none"]
    /\ syncer = [n \in Nodes |-> [enabled |-> n \in enabled, task |-> "none", asked |-> {}]]
    /\ streams = {}

\* one service, not connected to any other node
Init ==
    /\ unmarshalers \in Registries
    /\ links = {}
    /\ InitService
    /\ InitSync({})

-----------------------------------------------------------------------------
(* Start, Stop, Subscribe, AddVerifier, Get. *)

\* registerProofTopics: join a topic for each element of the list, in order;
\* `joined' is the number of joins that succeed before one fails (all of
\* them when joined = Len(list))
registerProofTopics(list, joined) == {list[i] : i \in 1..joined}

Start(n) ==
    /\ ret = NoCall
    /\ status[n] = "new"
    /\ \E order \in Orders(unmarshalers) :
         \E joined \in 0..Len(List(order)) :
            /\ topics' = [topics EXCEPT ![n] = registerProofTopics(List(order), joined)]
            /\ status' = [status EXCEPT ![n] =
                             IF joined = Len(List(order)) THEN "started" ELSE "failed"]
            /\ ret' = [mkRet("Start", n, "") EXCEPT
                          !.err = IF joined = Len(List(order)) THEN "nil" ELSE "join"]
            /\ syncer' = [syncer EXCEPT ![n].task =
                             IF joined = Len(List(order)) /\ syncer[n].enabled
                             THEN "waiting" ELSE @]
    /\ scope' = [scope EXCEPT ![n] = "live"]
    /\ UNCHANGED <<startCtx, streams>>
    /\ UNCHANGED <<unmarshalers, verifiers, stores, ds, subOpen, subQueue, got,
                   blacklist, tasks, net, links, msgs, accepted>>

\* Stop: every topic is deleted from the map and closed; err is assigned in each
\* iteration, so the error returned is that of the topic closed last.
\* `failing' are the topics whose Close fails.
Stop(n) ==
    /\ ret = NoCall
    /\ status[n] \in {"started", "failed"}
    /\ \E failing \in SUBSET topics[n] :
         \E last \in topics[n] \cup {"-"} :
            /\ (last = "-") = (topics[n] = {})
            /\ ret' = [mkRet("Stop", n, "") EXCEPT
                          !.err = IF last \in failing THEN "close" ELSE "nil",
                          !.failed = failing]
    /\ topics' = [topics EXCEPT ![n] = {}]
    /\ status' = [status EXCEPT ![n] = "stopped"]
    /\ scope' = [scope EXCEPT ![n] = "cancelled"]
    /\ UNCHANGED <<startCtx, syncer, streams>>
    /\ UNCHANGED <<unmarshalers, verifiers, stores, ds, subOpen, subQueue, got,
                   blacklist, tasks, net, links, msgs, accepted>>

\* Subscribe: an error when the topics map has no entry for the type, or when
\* the topic's Subscribe fails (subOk = FALSE)
Subscribe(n, proofType, subOk) ==
    /\ ret = NoCall
    /\ IF proofType \notin topics[n]
       THEN /\ ret' = [mkRet("Subscribe", n, proofType) EXCEPT !.err = "topic"]
            /\ UNCHANGED subOpen
       ELSE IF ~subOk
       THEN /\ ret' = [mkRet("Subscribe", n, proofType) EXCEPT !.err = "subscribe"]
            /\ UNCHANGED subOpen
       ELSE /\ proofType \notin subOpen[n]
            /\ ret' = [mkRet("Subscribe", n, proofType) EXCEPT !.isNil = FALSE]
            /\ subOpen' = [subOpen EXCEPT ![n] = @ \cup {proofType}]
    /\ UNCHANGED syncVars
    /\ UNCHANGED <<unmarshalers, status, topics, verifiers, stores, ds, subQueue, got,
                   blacklist, tasks, net, links, msgs, accepted>>

\* subscription.Proof: the next message of the subscription; its ValidatorData
\* must be a Proof, or the call panics
Proof(n, proofType) ==
    /\ proofType \in subOpen[n]
    /\ subQueue[n][proofType] # <<>>
    /\ subQueue' = [subQueue EXCEPT ![n][proofType] = Tail(@)]
    /\ IF Head(subQueue[n][proofType]).vd
       THEN /\ got' = [got EXCEPT ![n][proofType] = Append(@, Head(subQueue[n][proofType]))]
            /\ ret' = [mkRet("Proof", n, proofType) EXCEPT
                          !.proof = Head(subQueue[n][proofType]).proof,
                          !.data = Head(subQueue[n][proofType]).data,
                          !.isNil = FALSE]
       ELSE /\ got' = got
            /\ ret' = [mkRet("Proof", n, proofType) EXCEPT !.err = "panic"]
    /\ UNCHANGED syncVars
    /\ UNCHANGED <<unmarshalers, status, topics, verifiers, stores, ds, subOpen,
                   blacklist, tasks, net, links, msgs, accepted>>

\* AddVerifier without the check for a verifier already set
AddVerifierOverwrites(n, proofType, verifier) ==
    /\ ret = NoCall
    /\ verifiers' = [verifiers EXCEPT ![n][proofType] = verifier]
    /\ ret' = [mkRet("AddVerifier", n, proofType) EXCEPT !.changed = TRUE]
    /\ UNCHANGED syncVars
    /\ UNCHANGED <<unmarshalers, status, topics, stores, ds, subOpen, subQueue, got,
                   blacklist, tasks, net, links, msgs, accepted>>

\* AddVerifier: an error when the type has a verifier, else the verifier is set
AddVerifier(n, proofType, verifier) ==
    /\ ret = NoCall
    /\ IF verifiers[n][proofType] # NoVerifier
       THEN /\ ret' = [mkRet("AddVerifier", n, proofType) EXCEPT !.err = "exists"]
            /\ UNCHANGED verifiers
       ELSE /\ verifiers' = [verifiers EXCEPT ![n][proofType] = verifier]
            /\ ret' = [mkRet("AddVerifier", n, proofType) EXCEPT !.changed = TRUE]
    /\ UNCHANGED syncVars
    /\ UNCHANGED <<unmarshalers, status, topics, stores, ds, subOpen, subQueue, got,
                   blacklist, tasks, net, links, msgs, accepted>>

\* Get that turns ErrNotFound into an empty list and no error
GetSwallowsNotFound(n, proofType) ==
    /\ ret = NoCall
    /\ stores' = [stores EXCEPT ![n] = @ \cup {proofType}]
    /\ ret' = [mkRet("Get", n, proofType) EXCEPT
                  !.err = "nil",
                  !.isNil = FALSE,
                  !.list = getAll(n, proofType).list]
    /\ UNCHANGED syncVars
    /\ UNCHANGED <<unmarshalers, status, topics, verifiers, ds, subOpen, subQueue, got,
                   blacklist, tasks, net, links, msgs, accepted>>

\* Get: the store handle of the type is created when missing, then getAll
Get(n, proofType) ==
    /\ ret = NoCall
    /\ stores' = [stores EXCEPT ![n] = @ \cup {proofType}]
    /\ ret' = [mkRet("Get", n, proofType) EXCEPT
                  !.err = getAll(n, proofType).err,
                  !.isNil = getAll(n, proofType).isNil,
                  !.list = getAll(n, proofType).list]
    /\ UNCHANGED syncVars
    /\ UNCHANGED <<unmarshalers, status, topics, verifiers, ds, subOpen, subQueue, got,
                   blacklist, tasks, net, links, msgs, accepted>>

-----------------------------------------------------------------------------
(* Messages entering the pipeline: Broadcast, and messages from peers. *)

Neighbours(n) == {m \in Nodes : <<n, m>> \in links \/ <<m, n>> \in links}

\* an invocation of processIncoming on its way to the store write; `clean'
\* notes whether the header was there, no verifier refused and Validate
\* succeeded when the invocation checked the message
mkTask(n, proofType, from, data, local, clean, seen) ==
    [node |-> n, proofType |-> proofType, from |-> from, data |-> data,
     local |-> local, clean |-> clean, seen |-> seen]

\* TRUE when, with the outcomes env, the message decodes, the head is there and
\* the height within the threshold of it, the header is there, the verifier of
\* the type is absent or returns (true, nil), and Validate succeeds
Clean(n, proofType, data, env) ==
    /\ Unmarshal(proofType, data).err = NoErr
    /\ ~env.head.err
    /\ ~U64Less(U64Add(env.head.height, headThreshold), Unmarshal(proofType, data).proof.height)
    /\ env.hdrOk
    /\ verifiers[n][proofType] \in {NoVerifier, "true"}
    /\ Validate(Unmarshal(proofType, data).proof) = "nil"
    /\ env.panic \in {"none", "verifier"}
    /\ env.panic = "verifier" => verifiers[n][proofType] = NoVerifier

\* TRUE when height > h + 20 as numbers, whatever the width of the sum
AboveThreshold(height, h) ==
    /\ ~U64AddOverflows(h, headThreshold)
    /\ U64Less(U64Add(h, headThreshold), height)

\* TRUE when the datastore of node n holds these bytes under the type and the
\* hash of the proof they decode to
Held(n, proofType, data) ==
    /\ Unmarshal(proofType, data).err = NoErr
    /\ ds[n][<<proofType, hexEncodeToString(Unmarshal(proofType, data).proof.hash)>>] = data

\* TRUE when the datastore of node n holds other bytes under the type and the
\* hash of the proof these bytes decode to
HeldOther(n, proofType, data) ==
    /\ Unmarshal(proofType, data).err = NoErr
    /\ ds[n][<<proofType, hexEncodeToString(Unmarshal(proofType, data).proof.hash)>>]
          \notin {NoData, data}

\* what the invocation for a message meets, with the outcomes env
Seen(n, proofType, data, env) ==
    LET u == Unmarshal(proofType, data)
        decoded == u.err = NoErr /\ env.panic # "unmarshal"
        atHead == decoded /\ knownStage(n, proofType, u.proof, data, env) = Pass
                          /\ env.panic # "head"
        held == Held(n, proofType, data)
    IN  [beyond |-> /\ atHead
                    /\ ~env.head.err
                    /\ AboveThreshold(u.proof.height, env.head.height),
         held |-> held,
         missed |-> held /\ proofType \in stores[n] /\ ~env.dsOk,
         other |-> HeldOther(n, proofType, data),
         nohandle |-> held /\ proofType \notin stores[n],
         headDown |-> u.err = NoErr /\ env.panic \notin {"unmarshal", "head"} /\ env.head.err,
         hdrDown |-> /\ atHead
                     /\ headStage(u.proof, env) = Pass
                     /\ env.panic # "header"
                     /\ ~env.hdrOk]

\* the verdicts processIncoming may come to for a message, over the outcomes
\* envs of the calls it makes to its collaborators
Verdicts(n, proofType, data, envs) ==
    {[v |-> processIncomingChecks(n, proofType, data, env),
      clean |-> Clean(n, proofType, data, env),
      seen |-> Seen(n, proofType, data, env)] : env \in envs}

\* Topic.Publish validates the message on the publishing node before it
\* returns: nil when the validator accepted, an error otherwise
Publish(res) == IF res = "Accept" THEN "nil" ELSE "validation"

\* Broadcast with the error of Publish dropped
BroadcastReturnNil(publishErr) == "nil"

\* Broadcast returns what Publish returns
BroadcastReturn(publishErr) == publishErr

\* The validator of the topic runs processIncoming on the message, with
\* verdict o.v. A message that a stage stops ends here, with its verdict; a
\* message that passes all of them goes on to the store write (Persist).
\* `local' tells a message published by Broadcast on this node, whose Publish
\* returns the verdict to the caller, from a message of a peer.
validate(n, proofType, from, data, o, local) ==
    /\ Cardinality(tasks) < MaxTasks
    /\ mkTask(n, proofType, from, data, local, o.clean, o.seen) \notin tasks
    /\ IF o.v = Pass
       THEN /\ tasks' = tasks \cup {mkTask(n, proofType, from, data, local, o.clean, o.seen)}
            /\ UNCHANGED <<blacklist, ret>>
       ELSE /\ tasks' = tasks
            /\ blacklist' = [blacklist EXCEPT ![n] =
                                IF o.v.bl > 0 THEN @ \cup {from} ELSE @]
            /\ ret' = [mkRet(IF local THEN "Broadcast" ELSE "processIncoming",
                             n, proofType) EXCEPT
                          !.data = data,
                          !.from = from,
                          !.res = o.v.res,
                          !.bl = o.v.bl,
                          !.why = o.v.why,
                          !.clean = o.clean,
                          !.seen = o.seen,
                          !.err = IF local THEN BroadcastReturn(Publish(o.v.res)) ELSE "nil"]

\* Broadcast of a proof p whose Type() is proofType: marshal, look the topic
\* up, publish
Broadcast(n, proofType, p, marshalOk, envs) ==
    /\ ret = NoCall
    /\ IF ~marshalOk
       THEN /\ ret' = [mkRet("Broadcast", n, proofType) EXCEPT
                          !.err = "marshal", !.why = "marshal"]
            /\ UNCHANGED <<tasks, blacklist, msgs>>
       ELSE IF proofType \notin topics[n]
       THEN /\ ret' = [mkRet("Broadcast", n, proofType) EXCEPT
                          !.err = "topic", !.why = "topic"]
            /\ UNCHANGED <<tasks, blacklist, msgs>>
       ELSE /\ msgs < MaxMsgs
            /\ msgs' = msgs + 1
            /\ \E o \in Verdicts(n, proofType, MarshalBinary(p), envs) :
                  validate(n, proofType, n, MarshalBinary(p), o, TRUE)
    /\ UNCHANGED syncVars
    /\ UNCHANGED <<unmarshalers, status, topics, verifiers, stores, ds, subOpen,
                   subQueue, got, net, links, accepted>>

\* a message of a peer that is not modelled arrives on a joined topic
Inject(n, proofType, data, envs) ==
    /\ ret = NoCall
    /\ status[n] \in {"started", "failed"}
    /\ proofType \in topics[n]
    /\ msgs < MaxMsgs
    /\ msgs' = msgs + 1
    /\ \E o \in Verdicts(n, proofType, data, envs) :
          validate(n, proofType, Remote, data, o, FALSE)
    /\ UNCHANGED syncVars
    /\ UNCHANGED <<unmarshalers, status, topics, verifiers, stores, ds, subOpen,
                   subQueue, got, net, links, accepted>>

\* a message forwarded by a connected node arrives; it is dropped when the
\* receiver has not joined the topic
Deliver(m, envs) ==
    /\ m \in net
    /\ net' = net \ {m}
    /\ IF status[m.dst] \in {"started", "failed"} /\ m.proofType \in topics[m.dst]
       THEN \E o \in Verdicts(m.dst, m.proofType, m.data, envs) :
               validate(m.dst, m.proofType, m.src, m.data, o, FALSE)
       ELSE UNCHANGED <<tasks, blacklist, ret>>
    /\ UNCHANGED syncVars
    /\ UNCHANGED <<unmarshalers, status, topics, verifiers, stores, ds, subOpen,
                   subQueue, got, links, msgs, accepted>>

\* put that creates the store handle and returns nil without writing the bytes
putNoWrite(n, proofType, hash, data, putOk) ==
    [stores |-> [stores EXCEPT ![n] = @ \cup {proofType}],
     ds     |-> ds,
     err    |-> "nil"]

\* ProofService.put: the store handle of the type is created when missing,
\* then the bytes are written under the hash unless the datastore fails
put(n, proofType, hash, data, putOk) ==
    [stores |-> [stores EXCEPT ![n] = @ \cup {proofType}],
     ds     |-> IF putOk THEN [ds EXCEPT ![n][<<proofType, hash>>] = data] ELSE ds,
     err    |-> IF putOk THEN "nil" ELSE "put"]

\* the message of an accepted invocation with nothing in ValidatorData
mkMsgNoValidatorData(data, proof, from) ==
    [data |-> data, vd |-> FALSE, proof |-> NoProof, from |-> from]

\* the message of an accepted invocation, with the proof in ValidatorData and
\* the peer it was received from (the node itself for its own Broadcast)
mkMsg(data, proof, from) == [data |-> data, vd |-> TRUE, proof |-> proof, from |-> from]

\* the verdict after the store write, downgraded when the write failed
persistVerdictDowngrades(err) == IF err = "nil" THEN "Accept" ELSE "Reject"

\* the verdict after the store write: the error of put is logged, the verdict
\* is Accept
persistVerdict(err) == "Accept"

\* The end of processIncoming for a message that passed every stage: the
\* proof is put in the store and the verdict is Accept whether or not the
\* write succeeded. The transport then hands the message to the subscription
\* of the topic and forwards it to the connected peers other than its source.
Persist(tk, putOk) ==
    /\ tk \in tasks
    /\ tasks' = tasks \ {tk}
    /\ LET proof == Unmarshal(tk.proofType, tk.data).proof
           w == put(tk.node, tk.proofType, hexEncodeToString(proof.hash), tk.data, putOk)
       IN  /\ stores' = w.stores
           /\ ds' = w.ds
           /\ subQueue' = IF tk.proofType \in subOpen[tk.node]
                          THEN [subQueue EXCEPT ![tk.node][tk.proofType] =
                                    Append(@, mkMsg(tk.data, proof, tk.from))]
                          ELSE subQueue
           /\ ret' = [mkRet(IF tk.local THEN "Broadcast" ELSE "processIncoming",
                            tk.node, tk.proofType) EXCEPT
                         !.data = tk.data,
                         !.from = tk.from,
                         !.res = persistVerdict(w.err),
                         !.why = IF w.err = "nil" THEN "stored" ELSE "putfailed",
                         !.clean = tk.clean,
                         !.seen = tk.seen,
                         !.dup = Held(tk.node, tk.proofType, tk.data),
                         !.err = IF tk.local THEN BroadcastReturn(Publish("Accept")) ELSE "nil",
                         !.proof = proof]
    /\ accepted' = [accepted EXCEPT ![tk.node] =
                       @ \cup {[proofType |-> tk.proofType, data |-> tk.data,
                                clean |-> tk.clean]}]
    /\ net' = net \cup {[src |-> tk.node, dst |-> m, proofType |-> tk.proofType,
                         data |-> tk.data] : m \in Neighbours(tk.node) \ {tk.from}}
    /\ UNCHANGED syncVars
    /\ UNCHANGED <<unmarshalers, status, topics, verifiers, subOpen, got, blacklist,
                   links, msgs>>

\* the call that has just returned is over: its caller goes on
Return ==
    /\ ret # NoCall
    /\ ret' = NoCall
    /\ UNCHANGED syncVars
    /\ UNCHANGED <<unmarshalers, status, topics, verifiers, stores, ds, subOpen, subQueue,
                   got, blacklist, tasks, net, links, msgs, accepted>>

-----------------------------------------------------------------------------
(* One service and the peers it hears from. *)

Local == {"A"}

\* the verifiers the embedder registers: each kind for the registered type,
\* and one for a type that has no unmarshaler
VerifierInputs == {<<"t1", "true">>, <<"t1", "false">>, <<"t1", "error">>, <<"t2", "true">>}

\* the types the embedder asks Get for: a registered one and one without unmarshaler
GetTypes == {"t1", "t2"}

DoStart == \E n \in Local : Start(n)
DoStop == \E n \in Local : Stop(n)
DoSubscribe == \E n \in Local, t \in ProofTypes, subOk \in BOOLEAN : Subscribe(n, t, subOk)
DoProof == \E n \in Local, t \in ProofTypes : Proof(n, t)
DoAddVerifier == \E n \in Local, in \in VerifierInputs : AddVerifier(n, in[1], in[2])
DoGet == \E n \in Local, t \in GetTypes : Get(n, t)
DoBroadcast ==
    \E n \in Local, t \in ProofTypes, p \in Proofs, marshalOk \in BOOLEAN :
        Broadcast(n, t, p, marshalOk, Envs)
DoInject == \E n \in Local, t \in ProofTypes, d \in Bytes : Inject(n, t, d, Envs)
DoPersist == \E tk \in tasks, putOk \in BOOLEAN : Persist(tk, putOk)

Next ==
    \/ DoStart
    \/ DoStop
    \/ DoSubscribe
    \/ DoProof
    \/ DoAddVerifier
    \/ DoGet
    \/ DoBroadcast
    \/ DoInject
    \/ DoPersist
    \/ Return

Spec == Init /\ [][Next]_vars

-----------------------------------------------------------------------------
(* Properties of the store and of the subscriptions. *)

\* the records of the partition of a type on node n
Records(n, proofType) == {k \in HexKeys : ds[n][<<proofType, k>>] # NoData}

\* an invocation that returned Accept for these bytes on this type, having
\* found the message valid when it checked it
AcceptedClean(n, proofType, data) ==
    \E a \in accepted[n] : a.proofType = proofType /\ a.data = data /\ a.clean

\* C1: every record of the store was written by an invocation of processIncoming
\* that returned Accept, for a message that decodes to a proof of that hash, whose
\* Validate succeeded and that no registered verifier refused; an invocation that
\* returns Ignore or Reject leaves the store as it is.
C1_StoreHoldsAcceptedOnly ==
    /\ [](\A n \in Nodes : \A k \in StoreKeys :
            ds[n][k] # NoData =>
                /\ AcceptedClean(n, k[1], ds[n][k])
                /\ Unmarshal(k[1], ds[n][k]).err = NoErr
                /\ hexEncodeToString(Unmarshal(k[1], ds[n][k]).proof.hash) = k[2]
                /\ Validate(Unmarshal(k[1], ds[n][k]).proof) = "nil")
    /\ [][(ret' # ret /\ ret'.res \in {"Ignore", "Reject"}) => ds' = ds]_vars
    /\ [][ds' # ds => (ret' # ret /\ ret'.res = "Accept")]_vars

\* a record is in the store after an Accept
C1_Witness ==
    /\ ret.res = "Accept"
    /\ ret.why = "stored"
    /\ Records(ret.node, ret.proofType) # {}

\* the messages a subscription holds or has handed out
Yielded(n, proofType) ==
    {subQueue[n][proofType][i] : i \in 1..Len(subQueue[n][proofType])}
        \cup {got[n][proofType][i] : i \in 1..Len(got[n][proofType])}

\* C2: every message a subscription of type t holds or has returned went through
\* an invocation of processIncoming for t that returned Accept, for a message found
\* valid; an invocation that returns Ignore or Reject delivers nothing, and Proof
\* returns nothing else.
C2_SubscriptionYieldsAcceptedOnly ==
    /\ [](\A n \in Nodes : \A t \in ProofTypes : \A m \in Yielded(n, t) :
            /\ AcceptedClean(n, t, m.data)
            /\ m.vd
            /\ m.proof = Unmarshal(t, m.data).proof
            /\ Validate(m.proof) = "nil")
    /\ [][(ret' # ret /\ ret'.res \in {"Ignore", "Reject"}) => subQueue' = subQueue]_vars
    /\ [](ret.op = "Proof" /\ ret.err = "nil" =>
            AcceptedClean(ret.node, ret.proofType, ret.data))

\* Proof has returned a proof on a node that also refused a message
C2_Witness ==
    /\ ret.op = "Proof"
    /\ ret.err = "nil"
    /\ ret.data \in Bytes
    /\ blacklist[ret.node] # {}

-----------------------------------------------------------------------------
(* Properties of Broadcast and Get. *)

\* C5: Broadcast returns an error when the pipeline of the node rejects the
\* proof it published: Validate failed, or the verifier returned false or an error.
C5_BroadcastReportsRejection ==
    (ret.op = "Broadcast" /\ ret.res = "Reject") => ret.err # "nil"

\* Broadcast has returned an error for a proof that the verifier refused
C5_Witness ==
    /\ ret.op = "Broadcast"
    /\ ret.res = "Reject"
    /\ ret.why = "verifier"
    /\ ret.err # "nil"

\* TRUE when a Get of the type on the node would return a list with the proof
GetHolds(n, proofType, p) ==
    /\ getAll(n, proofType).err = "nil"
    /\ \E i \in 1..Len(getAll(n, proofType).list) : getAll(n, proofType).list[i] = p

\* C6 as stated: when Broadcast has returned nil, Get of the type returns a list
\* that holds the proof.
C6_GetAfterBroadcast ==
    (ret.op = "Broadcast" /\ ret.err = "nil") =>
        GetHolds(ret.node, ret.proofType, Unmarshal(ret.proofType, ret.data).proof)

\* C6, amended: when Broadcast has returned nil and the store write of the
\* pipeline did not fail, Get of the type returns a list that holds the proof.
C6_GetAfterBroadcastStored ==
    (ret.op = "Broadcast" /\ ret.err = "nil" /\ ret.why = "stored") =>
        GetHolds(ret.node, ret.proofType, Unmarshal(ret.proofType, ret.data).proof)

\* Broadcast has returned nil after a store write that succeeded
C6_Witness ==
    /\ ret.op = "Broadcast"
    /\ ret.err = "nil"
    /\ ret.why = "stored"
    /\ ret.data \in Bytes

\* C7: Get of a type whose partition has no record fails with NotFound and
\* returns no list; when the partition has records, Get succeeds with a list of
\* as many proofs.
C7_GetNotFoundOnEmpty ==
    ret.op = "Get" =>
        IF Records(ret.node, ret.proofType) = {}
        THEN ret.err = "NotFound" /\ ret.isNil /\ ret.list = <<>>
        ELSE /\ ret.err = "nil"
             /\ ~ret.isNil
             /\ Len(ret.list) = Cardinality(Records(ret.node, ret.proofType))

\* Get has failed with NotFound on a node whose store has a record of another type
C7_Witness ==
    /\ ret.op = "Get"
    /\ ret.err = "NotFound"
    /\ \E t \in ProofTypes : Records(ret.node, t) # {}

-----------------------------------------------------------------------------
(* Properties of AddVerifier and Subscribe. *)

\* C8: AddVerifier for a type without verifier succeeds and sets it; AddVerifier
\* for a type that has one fails and changes nothing; no step replaces or
\* removes a verifier.
C8_VerifierSetOnce ==
    /\ [][\A n \in Nodes : \A t \in ProofTypes :
            verifiers[n][t] # NoVerifier => verifiers'[n][t] = verifiers[n][t]]_vars
    /\ [][(ret' # ret /\ ret'.op = "AddVerifier") =>
            IF verifiers[ret'.node][ret'.proofType] = NoVerifier
            THEN /\ ret'.err = "nil"
                 /\ verifiers'[ret'.node][ret'.proofType] # NoVerifier
                 /\ \A n \in Nodes : \A t \in ProofTypes :
                       <<n, t>> # <<ret'.node, ret'.proofType>> =>
                           verifiers'[n][t] = verifiers[n][t]
            ELSE /\ ret'.err # "nil"
                 /\ verifiers' = verifiers]_vars

\* a second AddVerifier for a type has failed
C8_Witness ==
    /\ ret.op = "AddVerifier"
    /\ ret.err = "exists"
    /\ verifiers[ret.node][ret.proofType] # NoVerifier

\* C9: AddVerifier for a type that has no unmarshaler fails and registers nothing.
C9_AddVerifierUnknownType ==
    (ret.op = "AddVerifier" /\ ret.proofType \notin unmarshalers) =>
        (ret.err # "nil" /\ verifiers[ret.node][ret.proofType] = NoVerifier)

\* C10: on a started service, Subscribe for a type that has no unmarshaler
\* returns an error and no subscription.
C10_SubscribeUnknownType ==
    (/\ ret.op = "Subscribe"
     /\ status[ret.node] = "started"
     /\ ret.proofType \notin unmarshalers) =>
        (ret.err # "nil" /\ ret.isNil)

-----------------------------------------------------------------------------
(* Delivery to the subscription of the broadcasting node. *)

\* A single started node has no peer that delivers messages to it: the steps
\* are the calls of its own API and the ends of its Broadcasts' invocations.
SingleNext ==
    \/ DoStart
    \/ DoStop
    \/ DoSubscribe
    \/ DoProof
    \/ DoAddVerifier
    \/ DoGet
    \/ DoBroadcast
    \/ DoPersist
    \/ Return

\* A subscriber blocked in Proof is handed the next message of its
\* subscription, an invocation that passed the checks goes on to its end, and
\* a call that returned lets its caller go on.
SingleSpec ==
    /\ Init
    /\ [][SingleNext]_vars
    /\ WF_vars(DoProof)
    /\ WF_vars(DoPersist)
    /\ WF_vars(Return)

\* the messages of its own Broadcasts that wait in the subscriptions of node n
Waiting(n) ==
    {<<t, i>> \in ProofTypes \X (1..MaxMsgs) :
        i <= Len(subQueue[n][t]) /\ subQueue[n][t][i].from = n}

\* the message of the Broadcast that has just returned is in the subscription
\* of its type, or Proof has returned it already
Handed(n, proofType, data) ==
    \/ \E i \in 1..Len(subQueue[n][proofType]) :
          subQueue[n][proofType][i] = mkMsg(data, decode(data), n)
    \/ \E i \in 1..Len(got[n][proofType]) :
          got[n][proofType][i] = mkMsg(data, decode(data), n)

\* a message leaves a subscription only when Proof returns it
LeavesByProof ==
    \A n \in Nodes : \A t \in ProofTypes :
        \/ subQueue'[n][t] = subQueue[n][t] /\ got'[n][t] = got[n][t]
        \/ \E m \in {subQueue'[n][t][i] : i \in 1..Len(subQueue'[n][t])} :
              subQueue'[n][t] = Append(subQueue[n][t], m) /\ got'[n][t] = got[n][t]
        \/ /\ subQueue[n][t] # <<>>
           /\ subQueue'[n][t] = Tail(subQueue[n][t])
           /\ got'[n][t] = Append(got[n][t], Head(subQueue[n][t]))
           /\ ret'.op = "Proof" /\ ret'.err = "nil"
           /\ ret'.proof = Head(subQueue[n][t]).proof

\* C3 as stated: Broadcast of a proof that decodes, is within the threshold of
\* the head, has its header available, is not refused by a verifier and passes
\* Validate returns nil, and with a subscription of the type open, Proof
\* eventually returns the proof: the message is handed to the subscription, it
\* leaves it only through Proof, and no message of a Broadcast waits forever.
C3_BroadcastValidDelivered ==
    /\ []((ret.op = "Broadcast" /\ ret.clean) =>
            /\ ret.err = "nil"
            /\ ret.proofType \in subOpen[ret.node] =>
                  Handed(ret.node, ret.proofType, ret.data))
    /\ [][LeavesByProof]_vars
    /\ \A n \in Local : []<>(Waiting(n) = {})

\* C3, amended: the same for a proof whose bytes the store of the node does not
\* hold yet under its type and hash.
C3_BroadcastNewValidDelivered ==
    /\ []((ret.op = "Broadcast" /\ ret.clean /\ ret.why # "known") =>
            /\ ret.err = "nil"
            /\ ret.res = "Accept"
            /\ ret.proofType \in subOpen[ret.node] =>
                  Handed(ret.node, ret.proofType, ret.data))
    /\ [][LeavesByProof]_vars
    /\ \A n \in Local : []<>(Waiting(n) = {})

\* Proof has returned the proof of a Broadcast of the node
C3_Witness ==
    /\ ret.op = "Proof"
    /\ ret.err = "nil"
    /\ \E i \in 1..Len(got[ret.node][ret.proofType]) :
          got[ret.node][ret.proofType][i] = mkMsg(ret.data, ret.proof, ret.node)
    /\ \E a \in accepted[ret.node] : a.data = ret.data /\ a.clean

-----------------------------------------------------------------------------
(* Three services, A connected to B and B to C. *)

GossipInit ==
    /\ unmarshalers \in Registries
    /\ links = {<<"A", "B">>, <<"B", "C">>}
    /\ InitService
    /\ InitSync({})

\* on every node the head is at height 1, and the head, the header of the
\* proof and the datastore answer without error
HealthyEnvs ==
    {env \in Envs : ~env.head.err /\ env.head.height = U64(1) /\ env.hdrOk /\ env.dsOk}

GossipStart == \E n \in Nodes : Start(n)
GossipSubscribe ==
    \E n \in Nodes, t \in UNION Registries, subOk \in BOOLEAN : Subscribe(n, t, subOk)
GossipBroadcast ==
    \E t \in ProofTypes, p \in Proofs, marshalOk \in BOOLEAN :
        Broadcast("A", t, p, marshalOk, HealthyEnvs)
GossipDeliver == \E m \in net : Deliver(m, HealthyEnvs)
GossipPersist == \E tk \in tasks : Persist(tk, TRUE)

GossipNext ==
    \/ GossipStart
    \/ GossipSubscribe
    \/ GossipBroadcast
    \/ GossipDeliver
    \/ GossipPersist
    \/ Return

\* The transport delivers a message it forwards, an invocation that passed the
\* checks goes on to its end, and a call that returned lets its caller go on.
GossipSpec ==
    /\ GossipInit
    /\ [][GossipNext]_vars
    /\ WF_vars(GossipDeliver)
    /\ WF_vars(GossipPersist)
    /\ WF_vars(Return)

\* the bytes Broadcast can publish
Marshalled == {MarshalBinary(p) : p \in Proofs}

\* the subscription of proofType on node n holds or has handed out the message
\* with these bytes, received from peer `from'
Delivered(n, proofType, data, from) ==
    mkMsg(data, decode(data), from) \in Yielded(n, proofType)

\* Broadcast of these bytes by A has just returned nil, with the three nodes
\* started and subscribed to the type
BroadcastByA(proofType, data) ==
    /\ ret.op = "Broadcast" /\ ret.node = "A" /\ ret.err = "nil"
    /\ ret.proofType = proofType /\ ret.data = data
    /\ \A n \in Nodes : status[n] = "started" /\ proofType \in subOpen[n]

-----------------------------------------------------------------------------
(* Properties of the verdicts of the pipeline. *)

\* a call that ran processIncoming on a message has returned
PipelineReturned ==
    /\ ret.op \in {"processIncoming", "Broadcast"}
    /\ ret.res \in {"Accept", "Ignore", "Reject"}

\* the message of the call that returned failed to decode for want of an
\* unmarshaler of its type
NoCodec ==
    /\ ret.why = "decode"
    /\ Unmarshal(ret.proofType, ret.data).err.kind = "ErrNoUnmarshaler"

\* C11: when decoding fails because the type has no unmarshaler, the pipeline
\* returns Reject and does not blacklist the peer the message came from.
C11_NoCodecNotBlacklisted ==
    (PipelineReturned /\ NoCodec) => (ret.res = "Reject" /\ ret.bl = 0)

\* a message on the topic of a type without unmarshaler has been rejected
C11_Witness ==
    /\ PipelineReturned
    /\ NoCodec
    /\ ret.res = "Reject"

\* C12: an invocation calls BlacklistPeer exactly once, for the peer the message
\* came from, when it returns Reject because decoding failed with an error other
\* than the missing unmarshaler or because Validate failed; it calls it zero
\* times in every other outcome.
C12_BlacklistExactlyOnce ==
    PipelineReturned =>
        IF /\ ret.res = "Reject"
           /\ \/ ret.why = "validate"
              \/ ret.why = "decode" /\ ~NoCodec
        THEN ret.bl = 1 /\ ret.from \in blacklist[ret.node]
        ELSE ret.bl = 0

\* a peer has been blacklisted for a proof that failed Validate
C12_Witness ==
    /\ PipelineReturned
    /\ ret.why = "validate"
    /\ ret.bl = 1
    /\ ret.from \in blacklist[ret.node]

\* the invocation of the call that returned fetched the head and compared
\* the height of the proof with it
ThresholdChecked ==
    /\ PipelineReturned
    /\ ret.why \notin {"decode", "known", "head", "panic-unmarshal", "panic-head"}

\* C13: for a proof that decodes and is not stored yet, and a head of height h,
\* the head bound check rejects, without blacklisting, exactly when the height
\* of the proof is more than h + 20: a proof at h + 20 goes on to the later
\* stages, a proof at h + 21 is rejected.
C13_ThresholdBoundary ==
    ThresholdChecked =>
        /\ (ret.why = "threshold") <=> ret.seen.beyond
        /\ ret.why = "threshold" => (ret.res = "Reject" /\ ret.bl = 0)

\* a proof of height 22 has been rejected under a head of height 1
C13_Witness ==
    /\ ThresholdChecked
    /\ ret.data = "far"
    /\ ret.seen.beyond
    /\ ret.res = "Reject"
    /\ ret.bl = 0

\* an invocation that returns Ignore writes nothing and delivers nothing
IgnoreLeavesNoTrace ==
    (ret' # ret /\ ret'.op \in {"processIncoming", "Broadcast"} /\ ret'.res = "Ignore") =>
        (ds' = ds /\ subQueue' = subQueue /\ got' = got)

\* C14 as stated: an invocation for bytes that the store holds under the type and
\* hash of their proof returns Ignore, the record keeps these bytes, and nothing
\* is written or delivered.
C14_SecondFeedIgnored ==
    /\ []((PipelineReturned /\ ret.seen.held) =>
            /\ ret.res = "Ignore"
            /\ Held(ret.node, ret.proofType, ret.data))
    /\ [][IgnoreLeavesNoTrace]_vars

\* C14, amended: the same when the datastore read of the duplicate check
\* succeeds; the Ignore is that of the duplicate check.
C14_SecondFeedIgnoredWhenRead ==
    /\ []((PipelineReturned /\ ret.seen.held /\ ~ret.seen.missed) =>
            /\ ret.res = "Ignore"
            /\ ret.why = "known"
            /\ Held(ret.node, ret.proofType, ret.data))
    /\ [][IgnoreLeavesNoTrace]_vars

\* a second feed of stored bytes has been ignored, with the one delivery of the
\* first feed in the subscription
C14_Witness ==
    /\ PipelineReturned
    /\ ret.seen.held
    /\ ret.res = "Ignore"
    /\ Cardinality({i \in 1..Len(subQueue[ret.node][ret.proofType]) :
                      subQueue[ret.node][ret.proofType][i].data = ret.data}) = 1

-----------------------------------------------------------------------------
(* Properties of the records of the store. *)

\* C15: an invocation for a message that decodes to a proof under whose type
\* and hash the store holds other bytes rejects the message, and the record
\* keeps the bytes it had. Stated in the form that leaves aside the Ignore of a
\* failed head or header fetch: the invocation does not return Accept, and the
\* record does not take the bytes of the message.
C15_DifferentBytesRejected ==
    (PipelineReturned /\ ret.seen.other) =>
        /\ ret.res # "Accept"
        /\ ~Held(ret.node, ret.proofType, ret.data)

\* a message with other bytes for a stored hash has been rejected
C15_Witness ==
    /\ PipelineReturned
    /\ ret.seen.other
    /\ ret.res = "Reject"
    /\ HeldOther(ret.node, ret.proofType, ret.data)

\* getByHash on the store of the node returns the bytes of the message of the
\* call that returned, under the type and hash of their proof
StoreReturnsBytes ==
    LET r == getByHash(ret.node, ret.proofType,
                       hexEncodeToString(Unmarshal(ret.proofType, ret.data).proof.hash))
    IN  r.err = "nil" /\ r.data = ret.data

\* C16 as stated: when an invocation has returned Accept for a message, getByHash
\* for the type and hash of its proof returns the bytes of the message.
C16_AcceptedIsStored ==
    (PipelineReturned /\ ret.res = "Accept") => StoreReturnsBytes

\* C16, amended: the same when the store write of the invocation did not fail.
C16_AcceptedIsStoredUnlessPutFailed ==
    (PipelineReturned /\ ret.res = "Accept" /\ ret.why # "putfailed") => StoreReturnsBytes

\* a message from a peer has been accepted and stored
C16_Witness ==
    /\ ret.op = "processIncoming"
    /\ ret.res = "Accept"
    /\ ret.why = "stored"
    /\ StoreReturnsBytes

-----------------------------------------------------------------------------
(* Properties of Stop. *)

\* C18: Stop closes every joined topic, and returns an error exactly when the
\* Close of at least one topic failed, whatever the order of the closes.
C18_StopAggregatesErrors ==
    ret.op = "Stop" =>
        /\ topics[ret.node] = {}
        /\ (ret.err # "nil") <=> (ret.failed # {})

\* Stop has returned an error for a topic whose Close failed
C18_Witness ==
    /\ ret.op = "Stop"
    /\ ret.err = "close"
    /\ ret.failed # {}

-----------------------------------------------------------------------------
(* The catch-up protocol: a service made with syncerEnabled asks the peers *)
(* it is connected to for the proofs they hold, and feeds what they return *)
(* into its own pipeline.                                                  *)

\* the number of peers the catch-up task asks
fraudRequests == 5

\* two hosts get connected
Connect(a, b) ==
    /\ a # b
    /\ <<a, b>> \notin links
    /\ <<b, a>> \notin links
    /\ links' = links \cup {<<a, b>>}
    /\ UNCHANGED <<unmarshalers, status, topics, verifiers, stores, ds, subOpen, subQueue,
                   got, blacklist, tasks, net, msgs, accepted, ret>>
    /\ UNCHANGED syncVars

\* the catch-up task of node n opens a stream to a connected peer it has not
\* asked yet and sends its request
syncFraudProofs(n, peer) ==
    /\ syncer[n].task = "waiting"
    /\ scope[n] = "live"
    /\ peer \in Neighbours(n) \ syncer[n].asked
    /\ Cardinality(syncer[n].asked) < fraudRequests
    /\ syncer' = [syncer EXCEPT ![n].asked = @ \cup {peer}]
    /\ streams' = streams \cup {[kind |-> "request", src |-> n, dst |-> peer, proofs |-> {}]}
    /\ UNCHANGED <<unmarshalers, status, topics, verifiers, stores, ds, subOpen, subQueue,
                   got, blacklist, tasks, net, links, msgs, accepted, ret>>
    /\ UNCHANGED <<startCtx, scope>>

\* the proofs the store of node n holds for the registered types, encoded
storedProofs(n) ==
    UNION {{<<t, MarshalBinary(getAll(n, t).list[i])>> : i \in 1..Len(getAll(n, t).list)} :
              t \in unmarshalers}

\* the stream handler of the asked peer answers a request with the proofs of
\* its store; a peer that has no handler installed fails the stream
handleFraudMessageRequest(m) ==
    /\ m \in streams
    /\ m.kind = "request"
    /\ streams' = IF status[m.dst] = "started"
                  THEN (streams \ {m}) \cup
                       {[kind |-> "response", src |-> m.dst, dst |-> m.src,
                         proofs |-> storedProofs(m.dst)]}
                  ELSE streams \ {m}
    /\ UNCHANGED <<unmarshalers, status, topics, verifiers, stores, ds, subOpen, subQueue,
                   got, blacklist, tasks, net, links, msgs, accepted, ret>>
    /\ UNCHANGED <<startCtx, scope, syncer>>

\* the request task of the asking node feeds one proof of the response into the
\* pipeline of the topic of its type, as a message of the node itself; a proof
\* is dropped when the scope is cancelled or the topic is gone, and the stream
\* is closed after the last proof
feedResponse(m, pr, envs) ==
    /\ m \in streams
    /\ m.kind = "response"
    /\ IF m.proofs = {}
       THEN /\ streams' = streams \ {m}
            /\ UNCHANGED <<tasks, blacklist, ret>>
       ELSE /\ pr \in m.proofs
            /\ streams' = (streams \ {m}) \cup
                            (IF m.proofs = {pr} THEN {}
                             ELSE {[m EXCEPT !.proofs = @ \ {pr}]})
            /\ IF scope[m.dst] = "live" /\ pr[1] \in topics[m.dst]
               THEN \E o \in Verdicts(m.dst, pr[1], pr[2], envs) :
                       validate(m.dst, pr[1], m.dst, pr[2], o, FALSE)
               ELSE UNCHANGED <<tasks, blacklist, ret>>
    /\ UNCHANGED <<unmarshalers, status, topics, verifiers, stores, ds, subOpen, subQueue,
                   got, net, links, msgs, accepted>>
    /\ UNCHANGED <<startCtx, scope, syncer>>

\* the catch-up task ends when it finds its scope cancelled
syncExit(n) ==
    /\ syncer[n].task = "waiting"
    /\ scope[n] = "cancelled"
    /\ syncer' = [syncer EXCEPT ![n].task = "done"]
    /\ UNCHANGED <<unmarshalers, status, topics, verifiers, stores, ds, subOpen, subQueue,
                   got, blacklist, tasks, net, links, msgs, accepted, ret>>
    /\ UNCHANGED <<startCtx, scope, streams>>

\* the embedder cancels the context it passed to Start; the scope of the
\* service is made from context.Background() and does not follow it
CancelStartCtx(n) ==
    /\ status[n] # "new"
    /\ startCtx[n] = "live"
    /\ startCtx' = [startCtx EXCEPT ![n] = "cancelled"]
    /\ UNCHANGED <<unmarshalers, status, topics, verifiers, stores, ds, subOpen, subQueue,
                   got, blacklist, tasks, net, links, msgs, accepted, ret>>
    /\ UNCHANGED <<scope, syncer, streams>>

-----------------------------------------------------------------------------
(* Two services: A, and B made with syncerEnabled, which get connected.    *)

SyncInit ==
    /\ unmarshalers \in Registries
    /\ links = {}
    /\ InitService
    /\ InitSync({"B"})

SyncNodes == {"A", "B"}

SyncStart == \E n \in SyncNodes : Start(n)
SyncSubscribe ==
    \E t \in UNION Registries, subOk \in BOOLEAN : Subscribe("B", t, subOk)
SyncBroadcast ==
    \E n \in SyncNodes, t \in UNION Registries, p \in Proofs :
        Broadcast(n, t, p, TRUE, HealthyEnvs)
SyncConnect == Connect("A", "B")
SyncAsk == \E n \in SyncNodes, peer \in SyncNodes : syncFraudProofs(n, peer)
SyncServe == \E m \in streams : handleFraudMessageRequest(m)
SyncFeed ==
    \E m \in streams : \E pr \in m.proofs \cup {<<"", NoData>>} :
        feedResponse(m, pr, HealthyEnvs)

SyncNext ==
    \/ SyncStart
    \/ SyncSubscribe
    \/ SyncBroadcast
    \/ SyncConnect
    \/ SyncAsk
    \/ SyncServe
    \/ SyncFeed
    \/ GossipDeliver
    \/ GossipPersist
    \/ Return

\* The catch-up task and its request tasks go on, the asked peer answers, the
\* transport delivers what it forwards, an invocation that passed the checks
\* goes on to its end, and a call that returned lets its caller go on.
SyncSpec ==
    /\ SyncInit
    /\ [][SyncNext]_vars
    /\ WF_vars(SyncAsk)
    /\ WF_vars(SyncServe)
    /\ WF_vars(SyncFeed)
    /\ WF_vars(GossipDeliver)
    /\ WF_vars(GossipPersist)
    /\ WF_vars(Return)

\* B is started and subscribed to the type, it is connected to A, whose store
\* holds these bytes, and its catch-up task has not asked A yet
SyncDue(proofType, data) ==
    /\ status["B"] = "started"
    /\ syncer["B"].task = "waiting"
    /\ proofType \in subOpen["B"]
    /\ "A" \in Neighbours("B")
    /\ "A" \notin syncer["B"].asked
    /\ Held("A", proofType, data)

\* the store of B holds the bytes and the subscription of B has got them
SyncDone(proofType, data) ==
    /\ Held("B", proofType, data)
    /\ \E from \in Peers : Delivered("B", proofType, data, from)

-----------------------------------------------------------------------------
(* The same two services, with B stopped and the context of its Start      *)
(* cancelled at any time.                                                  *)

LifecycleStop == Stop("B")
LifecycleCancel == CancelStartCtx("B")
LifecycleExit == \E n \in SyncNodes : syncExit(n)

LifecycleNext ==
    \/ SyncNext
    \/ LifecycleStop
    \/ LifecycleCancel
    \/ LifecycleExit

LifecycleSpec == SyncInit /\ [][LifecycleNext]_vars

\* the catch-up task of node n or one of its request tasks is still there
SyncTaskAlive(n) ==
    \/ syncer[n].task = "waiting"
    \/ \E m \in streams : (m.kind = "request" /\ m.src = n) \/ (m.kind = "response" /\ m.dst = n)

\* C19: when Stop has returned, the catch-up task and its request tasks have
\* terminated: none of them is there to take a step after Stop.
C19_StopDrainsTasks ==
    \A n \in Nodes : status[n] = "stopped" => ~SyncTaskAlive(n)

\* Stop has returned on a service whose catch-up task was started
C19_Witness ==
    /\ ret.op = "Stop"
    /\ syncer[ret.node].task # "none"
    /\ scope[ret.node] = "cancelled"

\* C20: the scope of the service follows the context passed to Start: once
\* that context is cancelled the scope is cancelled, without Stop.
C20_ScopeBoundToStartCtx ==
    \A n \in Nodes :
        (scope[n] # "none" /\ startCtx[n] = "cancelled") => scope[n] = "cancelled"

\* the context passed to Start has been cancelled on a started service
C20_Witness ==
    \E n \in Nodes :
        /\ status[n] = "started"
        /\ startCtx[n] = "cancelled"
        /\ syncer[n].task = "waiting"

-----------------------------------------------------------------------------
(* One service whose collaborators may panic. *)

PanicVerifier == \E n \in Local : AddVerifier(n, "t1", "true")
PanicBroadcast ==
    \E n \in Local, t \in UNION Registries, p \in Proofs :
        Broadcast(n, t, p, TRUE, PanicEnvs)
PanicInject ==
    \E n \in Local, t \in UNION Registries, d \in Bytes : Inject(n, t, d, PanicEnvs)

PanicNext ==
    \/ DoStart
    \/ DoSubscribe
    \/ DoProof
    \/ PanicVerifier
    \/ PanicBroadcast
    \/ PanicInject
    \/ DoPersist
    \/ Return

PanicSpec == Init /\ [][PanicNext]_vars

\* the invocation of the call that returned ended in a recovered panic
Panicked ==
    /\ PipelineReturned
    /\ ret.why \in {"panic", "panic-unmarshal", "panic-head", "panic-header",
                    "panic-verifier"}

\* the step of an invocation that ends in a recovered panic changes neither
\* the store nor the blacklist, and hands nothing to a subscription or a peer
PanicLeavesNoTrace ==
    (/\ ret' # ret
     /\ ret'.op \in {"processIncoming", "Broadcast"}
     /\ ret'.why \in {"panic", "panic-unmarshal", "panic-head", "panic-header",
                      "panic-verifier"}) =>
        /\ ds' = ds
        /\ stores' = stores
        /\ blacklist' = blacklist
        /\ subQueue' = subQueue
        /\ net' = net
        /\ accepted' = accepted

\* C21: a panic in the unmarshal function, a fetcher, the verifier or Validate
\* does not leave the invocation: it returns Reject, blacklists nobody, and
\* leaves the store and the subscriptions as they are.
C21_PanicRecovered ==
    /\ [](Panicked => (ret.res = "Reject" /\ ret.bl = 0))
    /\ [][PanicLeavesNoTrace]_vars

\* the verifier of the type panicked on a message of a peer that decodes to a
\* valid proof, with a subscription of the type open
C21_Witness ==
    /\ Panicked
    /\ ret.why = "panic-verifier"
    /\ ret.from = Remote
    /\ Validate(decode(ret.data)) = "nil"
    /\ ret.proofType \in subOpen[ret.node]
    /\ subQueue[ret.node][ret.proofType] = <<>>
    /\ ret.from \notin blacklist[ret.node]

-----------------------------------------------------------------------------
(* Properties of the order of the stages. *)

\* the step of an invocation that returns Ignore for want of the head or of
\* the header changes neither the store nor the blacklist and delivers nothing
FetchFailureLeavesNoTrace ==
    (/\ ret' # ret
     /\ ret'.op \in {"processIncoming", "Broadcast"}
     /\ ret'.why \in {"head", "header"}) =>
        /\ ds' = ds
        /\ stores' = stores
        /\ blacklist' = blacklist
        /\ subQueue' = subQueue
        /\ accepted' = accepted

\* C22: an invocation that gets as far as the head fetcher and finds it failing,
\* or passes the head check and finds the header fetcher failing, returns
\* Ignore at that stage, whatever the verifier and Validate would say, with no
\* blacklisting and no change of the store.
C22_FetchFailureIgnored ==
    /\ []((PipelineReturned /\ ret.seen.headDown /\ ret.why \notin {"decode", "known"}) =>
            (ret.res = "Ignore" /\ ret.why = "head" /\ ret.bl = 0))
    /\ []((PipelineReturned /\ ret.seen.hdrDown) =>
            (ret.res = "Ignore" /\ ret.why = "header" /\ ret.bl = 0))
    /\ [][FetchFailureLeavesNoTrace]_vars

\* the header was missing for a proof that fails Validate, on a type whose
\* verifier refuses: the message is ignored, its sender not blacklisted
C22_Witness ==
    /\ PipelineReturned
    /\ ret.seen.hdrDown
    /\ ret.res = "Ignore"
    /\ ret.from = Remote
    /\ Validate(decode(ret.data)) = "error"
    /\ verifiers[ret.node][ret.proofType] = "false"
    /\ Remote \notin blacklist[ret.node]

\* the invocation of the call that returned got as far as the verifier stage
VerifierReached ==
    /\ PipelineReturned
    /\ ret.why \notin {"decode", "known", "head", "threshold", "header",
                       "panic-unmarshal", "panic-head", "panic-header"}

\* the verifier of the type of the call that returned refuses: an error or false
VerifierRefuses == verifiers[ret.node][ret.proofType] \in {"false", "error"}

\* the step of an invocation that the verifier stops writes nothing, blacklists
\* nobody and delivers nothing
VerifierRejectLeavesNoTrace ==
    (/\ ret' # ret
     /\ ret'.op \in {"processIncoming", "Broadcast"}
     /\ ret'.why = "verifier") =>
        /\ ds' = ds
        /\ stores' = stores
        /\ blacklist' = blacklist
        /\ subQueue' = subQueue
        /\ accepted' = accepted

\* C23: at the verifier stage a registered verifier that returns an error or
\* false makes the verdict Reject, without blacklisting and without a write,
\* whatever Validate would say; with no verifier or one that returns
\* (true, nil), the verdict is that of Validate: Accept when it succeeds, Reject
\* with blacklisting when it fails.
C23_VerifierBeforeValidate ==
    /\ [](VerifierReached =>
            /\ ret.why = "verifier" => (ret.res = "Reject" /\ ret.bl = 0 /\ VerifierRefuses)
            /\ (ret.res # "Accept" /\ VerifierRefuses) => ret.why = "verifier"
            /\ ret.res = "Accept" => ret.clean
            /\ (ret.res # "Accept" /\ ~VerifierRefuses) =>
                  \/ /\ Validate(decode(ret.data)) = "error"
                     /\ ret.why = "validate" /\ ret.res = "Reject" /\ ret.bl = 1
                  \/ /\ Validate(decode(ret.data)) = "panic"
                     /\ ret.why = "panic" /\ ret.res = "Reject" /\ ret.bl = 0)
    /\ [][VerifierRejectLeavesNoTrace]_vars

\* a verifier that returns false has stopped a proof of a peer that would have
\* failed Validate: the peer is not blacklisted
C23_Witness ==
    /\ VerifierReached
    /\ ret.why = "verifier"
    /\ verifiers[ret.node][ret.proofType] = "false"
    /\ Validate(decode(ret.data)) = "error"
    /\ ret.from = Remote
    /\ Remote \notin blacklist[ret.node]

-----------------------------------------------------------------------------
(* The two services again, with a datastore whose writes may fail and      *)
(* subscribers that read: every way a message gets into a subscription.    *)

PathsProof == \E n \in SyncNodes, t \in UNION Registries : Proof(n, t)

PathsNext ==
    \/ SyncStart
    \/ SyncSubscribe
    \/ SyncBroadcast
    \/ SyncConnect
    \/ SyncAsk
    \/ SyncServe
    \/ SyncFeed
    \/ GossipDeliver
    \/ DoPersist
    \/ PathsProof
    \/ Return

PathsSpec == SyncInit /\ [][PathsNext]_vars

\* the message the transport forwards for the call that is returning
Forward(r, dst) == [src |-> r.node, dst |-> dst, proofType |-> r.proofType, data |-> r.data]

\* the step of an invocation whose store write fails hands the message to the
\* open subscription of its type and to the connected peers other than its
\* source, and blacklists nobody
PutFailureStillDelivers ==
    (/\ ret' # ret
     /\ ret'.op \in {"processIncoming", "Broadcast"}
     /\ ret'.why = "putfailed") =>
        /\ blacklist' = blacklist
        /\ ds' = ds
        /\ ret'.proofType \in subOpen[ret'.node] =>
              subQueue'[ret'.node][ret'.proofType] =
                  Append(subQueue[ret'.node][ret'.proofType],
                         mkMsg(ret'.data, decode(ret'.data), ret'.from))
        /\ \A m \in Neighbours(ret'.node) \ {ret'.from} : Forward(ret', m) \in net'

\* C25: when a message has passed every check and the store write fails, the
\* verdict is Accept all the same: the message is delivered and forwarded, and
\* the peer it came from is not blacklisted.
C25_PutFailureStillAccepts ==
    /\ []((PipelineReturned /\ ret.why = "putfailed") =>
            (ret.res = "Accept" /\ ret.bl = 0 /\ ret.clean))
    /\ [][PutFailureStillDelivers]_vars

\* the write failed for a proof B broadcast: the store of B does not hold it,
\* the subscription of B has it and it is on its way to A
C25_Witness ==
    /\ PipelineReturned
    /\ ret.why = "putfailed"
    /\ ret.node = "B"
    /\ ret.res = "Accept"
    /\ ~Held("B", ret.proofType, ret.data)
    /\ Delivered("B", ret.proofType, ret.data, ret.from)
    /\ Forward(ret, "A") \in net

\* the messages in the subscription of a type on node n
Queued(n, proofType) ==
    {subQueue[n][proofType][i] : i \in 1..Len(subQueue[n][proofType])}

\* C26: every message handed to a subscription carries in ValidatorData the
\* proof its bytes decode to, whether it came from a peer, from a Broadcast of
\* the node or from the catch-up task, and Proof returns it without panic.
C26_AcceptedCarriesProof ==
    /\ \A n \in Nodes : \A t \in ProofTypes : \A m \in Queued(n, t) :
          m.vd /\ m.proof = decode(m.data)
    /\ ret.op = "Proof" => (ret.err = "nil" /\ ret.proof = decode(ret.data))

\* Proof has returned to B a proof that A broadcast and that B, which was not
\* connected to A then, got by its catch-up task
C26_Witness ==
    /\ ret.op = "Proof"
    /\ ret.node = "B"
    /\ ret.err = "nil"
    /\ msgs = 1
    /\ AcceptedClean("A", ret.proofType, ret.data)
    /\ "A" \in syncer["B"].asked
    /\ \E i \in 1..Len(got["B"][ret.proofType]) :
          got["B"][ret.proofType][i] = mkMsg(ret.data, ret.proof, "B")

-----------------------------------------------------------------------------
(* Invocations that overlap. *)

\* C27: of the invocations that run at the same time for the same type and the
\* same bytes at most one returns Accept: an invocation that found the bytes
\* not stored at its duplicate check and returns Accept does not find them
\* stored by another invocation at its own write.
C27_ConcurrentOneAccept ==
    (/\ PipelineReturned
     /\ ret.res = "Accept"
     /\ ret.why = "stored"
     /\ ~ret.seen.held
     /\ ~ret.seen.other) =>
        ~ret.dup

\* two invocations for the same bytes, from different peers, have both passed
\* the duplicate check and neither has written yet
C27_Witness ==
    \E t1 \in tasks, t2 \in tasks :
        /\ t1 # t2
        /\ t1.node = t2.node
        /\ t1.proofType = t2.proofType
        /\ t1.data = t2.data
        /\ ~t1.seen.held
        /\ ~t2.seen.held

-----------------------------------------------------------------------------
(* The head bound over the whole range of heights. *)

\* C28: the head bound check rejects a proof only when its height is more than
\* the height of the head plus 20 as numbers, for every head a uint64 can hold:
\* the sum does not wrap.
C28_HeadBoundNeverWraps ==
    (PipelineReturned /\ ret.why = "threshold") => ret.seen.beyond

-----------------------------------------------------------------------------
(* The topics joined by Start. *)

\* the elements of a sequence
Range(seq) == {seq[i] : i \in 1..Len(seq)}

\* C29: List returns each registered type once and nothing else, and after a
\* Start that succeeded the keys of the topics map are the registered types.
C29_TopicsAreRegisteredTypes ==
    \A n \in Nodes :
        status[n] = "started" =>
            /\ topics[n] = unmarshalers
            /\ \A order \in Orders(unmarshalers) :
                  /\ Range(List(order)) = unmarshalers
                  /\ Len(List(order)) = Cardinality(unmarshalers)

\* Start has returned nil on a service and the registered types have a topic
C29_Witness ==
    /\ ret.op = "Start"
    /\ ret.err = "nil"
    /\ status[ret.node] = "started"
    /\ unmarshalers \subseteq topics[ret.node]

-----------------------------------------------------------------------------
(* A service that is stopped and made anew over the same datastore. *)

\* NewProofService for node n with the datastore of its stopped service: the
\* topics, verifiers and store handles of the new service are empty, the
\* datastore keeps its records
Restart(n) ==
    /\ ret = NoCall
    /\ status[n] = "stopped"
    /\ \A tk \in tasks : tk.node # n
    /\ status' = [status EXCEPT ![n] = "new"]
    /\ topics' = [topics EXCEPT ![n] = {}]
    /\ verifiers' = [verifiers EXCEPT ![n] = [t \in ProofTypes |-> NoVerifier]]
    /\ stores' = [stores EXCEPT ![n] = {}]
    /\ subOpen' = [subOpen EXCEPT ![n] = {}]
    /\ subQueue' = [subQueue EXCEPT ![n] = [t \in ProofTypes |-> <<>>]]
    /\ got' = [got EXCEPT ![n] = [t \in ProofTypes |-> <<>>]]
    /\ scope' = [scope EXCEPT ![n] = "none"]
    /\ syncer' = [syncer EXCEPT ![n].task = "none", ![n].asked = {}]
    /\ UNCHANGED <<unmarshalers, ds, blacklist, tasks, net, links, msgs, accepted, ret,
                   startCtx, streams>>

RestartService == \E n \in Local : Restart(n)
RestartInject ==
    \E n \in Local, t \in UNION Registries, d \in Bytes : Inject(n, t, d, HealthyEnvs)
RestartPersist == \E tk \in tasks : Persist(tk, TRUE)

RestartNext ==
    \/ DoStart
    \/ DoStop
    \/ RestartService
    \/ DoGet
    \/ RestartInject
    \/ RestartPersist
    \/ Return

RestartSpec == Init /\ [][RestartNext]_vars

\* C30: the duplicate check reads the datastore: bytes that the datastore holds
\* under the type and hash of their proof are ignored also when the service
\* has not yet made the store handle of the type.
C30_DuplicateCheckReadsDatastore ==
    (PipelineReturned /\ ret.seen.held /\ ret.seen.nohandle) =>
        (ret.res = "Ignore" /\ ret.why = "known")

\* a message has come in whose bytes the datastore holds from an earlier
\* service, before the new service made the store handle of the type
C30_Witness ==
    /\ PipelineReturned
    /\ ret.seen.held
    /\ ret.seen.nohandle
    /\ AcceptedClean(ret.node, ret.proofType, ret.data)

====
